---- MODULE Spec2Model ----
(***************************************************************************)
(* A model of src/src/wisski/api.py: the Pathbuilder (path tree and record *)
(* table) and the FieldTypeFormatter codec.                                *)
(*                                                                         *)
(* Path ids are decimal strings in the source; the model writes the id     *)
(* "n" as the number n, so the root sentinel "0" is 0 and Python's string  *)
(* order on one-digit keys is the order of the numbers.  The sentinel is   *)
(* never the id of a record.                                               *)
(***************************************************************************)
EXTENDS Integers, Sequences, FiniteSets, TLC

\* ------------------------------------------------------------------ bounds
MaxId == 3
MaxPaths == 2
MaxBatch == 2
MaxOther == 2
MaxCombined == 3
MaxValues == 2
MaxSubs == 1
MaxCalls == 1
MaxRounds == 2
MaxCsvCalls == 2
MaxCsvSubs == 2

\* ----------------------------------------------------------- the universe
ROOT == 0
Ids == 1..MaxId
FieldIds == {"f1", "f2"}

\* The field a record of the universe carries: odd ids "f1", even ids "f2".
FieldOf(i) == IF i % 2 = 1 THEN "f1" ELSE "f2"

\* A path record as the remote schema source delivers it (a dict).
PathRecord(i, p, e, g) ==
  [id |-> i, parent |-> p, enabled |-> e, is_group |-> g,
   field |-> FieldOf(i),
   bundle |-> IF g THEN FieldOf(i) ELSE "b",
   fieldtype |-> IF g THEN "entity_reference" ELSE "string"]

Records ==
  {PathRecord(i, p, e, g) : i \in Ids, p \in {ROOT} \cup Ids,
                            e \in BOOLEAN, g \in BOOLEAN}

None == [py |-> "None"]

\* ------------------------------------------------------- dict-like helpers
\* self.paths is a dict keyed by record id, in insertion order: a sequence
\* of records with distinct ids.
InPaths(paths, i) == \E k \in 1..Len(paths) : paths[k].id = i

PathsGet(paths, i) ==
  paths[CHOOSE k \in 1..Len(paths) : paths[k].id = i]

EmptyTree == [id |-> ROOT, children |-> <<>>]

Leaf(i) == [id |-> i, children |-> <<>>]

HasChild(tree, i) == \E k \in 1..Len(tree.children) : tree.children[k].id = i

\* ------------------------------------------------------- reading the tree
RECURSIVE EdgeSeq(_)
\* every (parent id, child id) link below the given node, in pre-order
EdgeSeq(node) ==
  LET RECURSIVE from(_)
      from(k) == IF k > Len(node.children) THEN <<>>
                 ELSE <<<<node.id, node.children[k].id>>>>
                      \o EdgeSeq(node.children[k]) \o from(k + 1)
  IN from(1)

SeqToSet(s) == {s[k] : k \in 1..Len(s)}

Edges(t) == SeqToSet(EdgeSeq(t))

\* the ids of the attached (non-root) nodes
Attached(t) == {e[2] : e \in Edges(t)}

\* the ids of the nodes that hold a node of id i among their children
ParentsOf(t, i) == {e[1] : e \in {d \in Edges(t) : d[2] = i}}

\* ------------------------------------------------- Pathbuilder.add_path
RECURSIVE add_to_tree(_, _, _)
RECURSIVE add_to_tree_children(_, _, _, _)

\* The loop "for child in tree['children'].values()" of add_to_tree, from
\* the k-th child on: the first child whose subtree takes the element wins.
add_to_tree_children(element, tree, paths, k) ==
  IF k > Len(tree.children)
  THEN [ok |-> FALSE, tree |-> tree]
  ELSE LET r == add_to_tree(element, tree.children[k], paths)
       IN IF r.ok
          THEN [ok |-> TRUE,
                tree |-> [tree EXCEPT !.children[k] = r.tree]]
          ELSE add_to_tree_children(element, tree, paths, k + 1)

\* Mutant: the element is hung under whatever node the search starts at.
add_to_tree_anywhere(element, tree, paths) ==
  IF ~element.enabled
  THEN [ok |-> FALSE, tree |-> tree]
  ELSE IF HasChild(tree, element.id)
       THEN [ok |-> FALSE, tree |-> tree]
       ELSE [ok |-> TRUE,
             tree |-> [tree EXCEPT
                         !.children = Append(@, Leaf(element.id))]]

add_to_tree(element, tree, paths) ==
  IF ~element.enabled
  THEN [ok |-> FALSE, tree |-> tree]
  ELSE IF element.parent # ROOT /\ ~InPaths(paths, element.parent)
       THEN [ok |-> FALSE, tree |-> tree]
       ELSE IF element.parent \in {tree.id, ROOT}
            THEN IF HasChild(tree, element.id)
                 THEN [ok |-> FALSE, tree |-> tree]
                 ELSE [ok |-> TRUE,
                       tree |-> [tree EXCEPT
                                   !.children = Append(@, Leaf(element.id))]]
            ELSE add_to_tree_children(element, tree, paths, 1)

\* Mutant: a record whose id is known replaces the stored record.
add_path_overwrite(pb, new_path) ==
  IF ~InPaths(pb.paths, new_path.id)
  THEN LET stored == Append(pb.paths, new_path)
           r == add_to_tree(new_path, pb.tree, stored)
       IN [paths |-> stored, tree |-> r.tree, ret |-> r.ok]
  ELSE [paths |-> [k \in 1..Len(pb.paths) |->
                     IF pb.paths[k].id = new_path.id THEN new_path
                     ELSE pb.paths[k]],
        tree |-> pb.tree, ret |-> FALSE]

\* Mutant: a known record that has no node is tried on the tree again.
add_path_retry(pb, new_path) ==
  IF ~InPaths(pb.paths, new_path.id)
  THEN LET stored == Append(pb.paths, new_path)
           r == add_to_tree(new_path, pb.tree, stored)
       IN [paths |-> stored, tree |-> r.tree, ret |-> r.ok]
  ELSE IF new_path.id \notin Attached(pb.tree)
       THEN LET r == add_to_tree(PathsGet(pb.paths, new_path.id), pb.tree,
                                 pb.paths)
            IN [paths |-> pb.paths, tree |-> r.tree, ret |-> r.ok]
       ELSE [paths |-> pb.paths, tree |-> pb.tree, ret |-> FALSE]

\* pb is the pathbuilder [paths, tree]; the result carries the return value.
add_path(pb, new_path) ==
  IF ~InPaths(pb.paths, new_path.id)
  THEN LET stored == Append(pb.paths, new_path)
           r == add_to_tree(new_path, pb.tree, stored)
       IN [paths |-> stored, tree |-> r.tree, ret |-> r.ok]
  ELSE [paths |-> pb.paths, tree |-> pb.tree, ret |-> FALSE]

\* -------------------------------------------- Pathbuilder.get_path_for_id
RECURSIVE get_path_for_id_from(_, _, _)
get_path_for_id_from(paths, field_id, k) ==
  IF k > Len(paths) THEN None
  ELSE IF paths[k].field = field_id
          \/ (paths[k].field = paths[k].bundle /\ paths[k].bundle = field_id)
       THEN paths[k]
       ELSE get_path_for_id_from(paths, field_id, k + 1)

get_path_for_id(paths, field_id) == get_path_for_id_from(paths, field_id, 1)

\* --------------------------------------------------- Pathbuilder.combine
\* The loop over other.paths.values() from position k on.  When other is
\* self (aliased) the dict iterated is the dict add_path writes to, and
\* Python raises RuntimeError as soon as its size changes under the loop.
RECURSIVE combine_from(_, _, _, _)
combine_from(self, other, aliased, k) ==
  IF k > Len(other.paths)
  THEN [self |-> self, other |-> IF aliased THEN self ELSE other,
        ret |-> "self"]
  ELSE LET r == add_path(self, other.paths[k])
           next == [paths |-> r.paths, tree |-> r.tree]
       IN IF aliased /\ Len(r.paths) # Len(self.paths)
          THEN [self |-> next, other |-> next, ret |-> "RuntimeError"]
          ELSE combine_from(next, IF aliased THEN next ELSE other,
                            aliased, k + 1)

\* Mutant: the records of other are offered last to first.
combine_reversed(self, other, aliased) ==
  LET n == Len(other.paths)
      r == combine_from(self,
                        [other EXCEPT
                           !.paths = [k \in 1..n |-> other.paths[n + 1 - k]]],
                        FALSE, 1)
  IN [r EXCEPT !.other = IF aliased THEN r.self ELSE other]

combine(self, other, aliased) == combine_from(self, other, aliased, 1)

\* ------------------------------------------------- Pathbuilder.add_paths
\* The argument of add_paths is a dict: a sequence of entries (key, value)
\* with distinct keys, in the dict's order.
Entry(k, v) == [key |-> k, value |-> v]

RECURSIVE SelectEntries(_, _)
SelectEntries(d, g) ==
  IF d = <<>> THEN <<>>
  ELSE IF Head(d).value.is_group = g
       THEN <<Head(d)>> \o SelectEntries(Tail(d), g)
       ELSE SelectEntries(Tail(d), g)

\* sorted(other.items(), reverse=True): the keys are distinct, so the items
\* are ordered by key alone, largest first.
RECURSIVE sorted_reverse(_)
sorted_reverse(d) ==
  IF d = <<>> THEN <<>>
  ELSE LET n == CHOOSE n \in 1..Len(d) :
                  \A j \in 1..Len(d) : d[j].key <= d[n].key
       IN <<d[n]>> \o
          sorted_reverse([j \in 1..(Len(d) - 1) |->
                            IF j < n THEN d[j] ELSE d[j + 1]])

\* Mutant: the non-group records are left in the order of the argument.
reorder_unsorted(paths_arg) ==
  SelectEntries(paths_arg, TRUE) \o SelectEntries(paths_arg, FALSE)

\* Lines 56-68: groups in the argument's order, then the other records by
\* descending key.
reorder(paths_arg) ==
  SelectEntries(paths_arg, TRUE) \o
  sorted_reverse(SelectEntries(paths_arg, FALSE))

\* helper.pop(k, None)
RECURSIVE dict_pop(_, _)
dict_pop(d, k) ==
  IF d = <<>> THEN <<>>
  ELSE IF Head(d).key = k THEN Tail(d)
       ELSE <<Head(d)>> \o dict_pop(Tail(d), k)

\* One execution of the body of "while helper": the for loop over the
\* snapshot list(helper.values()), from position k of the snapshot on.
RECURSIVE add_paths_pass_from(_, _, _, _, _)
add_paths_pass_from(pb, snapshot, helper_, added_, k) ==
  IF k > Len(snapshot)
  THEN [pb |-> pb, helper |-> helper_, added |-> added_]
  ELSE LET path == snapshot[k].value
           r == add_path(pb, path)
       IN add_paths_pass_from([paths |-> r.paths, tree |-> r.tree],
                              snapshot,
                              dict_pop(helper_, path.id),
                              IF r.ret THEN added_ + 1 ELSE added_,
                              k + 1)

add_paths_pass(pb, helper_, added_) ==
  add_paths_pass_from(pb, helper_, helper_, added_, 1)

\* --------------------------------------------------------------- the state
VARIABLES
  paths,    \* Pathbuilder.paths of self: records in insertion order
  tree,     \* Pathbuilder.tree of self
  helper,   \* add_paths: the worklist dict
  added,    \* add_paths: the counter
  other,    \* combine: the argument while the call runs, else None
  pc,       \* "idle", "loop" (add_paths at its while loop) or "combine"
  result    \* the last call: its name and return value, or "running"

pbvars == <<paths, tree, helper, added, other, pc, result>>

\* FieldTypeFormatter has no state; these hold one round trip through it.
VARIABLES
  field_type,  \* the field type of the round trip
  scalar,      \* the scalar handed to format_value
  wire,        \* the field item format_value returned, or None
  decoded,     \* what get_value did with it, or None
  cpc          \* "off", "input", "formatted" or "decoded"

codecvars == <<field_type, scalar, wire, decoded, cpc>>

\* One Entity object, the wire object in flight and the transport.
VARIABLES
  ent,    \* the Entity: bundle_id, uri, fields, unused_fields, _saved_hash
  data,   \* the wire object last serialized or returned by the remote
  orig,   \* the Entity that data was serialized from, or None
  calls,  \* the number of POSTs the transport has received
  eres    \* the last Entity call: its name, arguments and outcome

entvars == <<ent, data, orig, calls, eres>>

\* The directory Entity.to_csv writes to.
VARIABLES
  files,  \* the per-bundle csv files: name and rows, in creation order
  cres    \* the last to_csv call: its argument and outcome

csvvars == <<files, cres>>

\* no Entity exists and nothing was written
EntOff ==
  /\ ent = None
  /\ data = <<>>
  /\ orig = None
  /\ calls = 0
  /\ eres = [op |-> "off"]

CsvOff ==
  /\ files = <<>>
  /\ cres = [op |-> "off"]

Self == [paths |-> paths, tree |-> tree]

Fresh == [paths |-> <<>>, tree |-> EmptyTree]

PbInit ==
  /\ paths = <<>>
  /\ tree = EmptyTree
  /\ helper = <<>>
  /\ added = 0
  /\ other = None
  /\ pc = "idle"
  /\ result = [op |-> "init"]

\* ----------------------------------------------------------------- inputs
Entries == {Entry(k, v) : k \in Ids, v \in Records}

\* The dicts of exactly n entries.
DistinctKeys(d) == \A a, b \in 1..Len(d) : a # b => d[a].key # d[b].key

Min(a, b) == IF a < b THEN a ELSE b

Max(a, b) == IF a < b THEN b ELSE a

RECURSIVE build(_, _)
build(pb, s) ==
  IF s = <<>> THEN pb
  ELSE LET r == add_path(pb, Head(s))
       IN build([paths |-> r.paths, tree |-> r.tree], Tail(s))

\* The pathbuilders a combine call can be handed are those that add_path
\* calls build from a fresh one: build(Fresh, s) for a sequence s of at most
\* MaxOther offered records.

\* ---------------------------------------------------------------- actions
AddPath(r) ==
  /\ pc = "idle"
  /\ InPaths(paths, r.id) \/ Len(paths) < MaxPaths
  /\ LET res == add_path(Self, r)
     IN /\ paths' = res.paths
        /\ tree' = res.tree
        /\ result' = [op |-> "add_path", ret |-> res.ret]
  /\ UNCHANGED <<helper, added, other, pc, codecvars, entvars, csvvars>>

\* add_paths up to the while loop (lines 56-70)
AddPathsCall(m) ==
  /\ pc = "idle"
  /\ Len(paths) + Len(m) <= MaxPaths
  /\ helper' = reorder(m)
  /\ added' = 0
  /\ pc' = "loop"
  /\ result' = [op |-> "running"]
  /\ UNCHANGED <<paths, tree, other, codecvars, entvars, csvvars>>

\* one iteration of "while helper" (lines 71-77)
AddPathsPass ==
  /\ pc = "loop"
  /\ helper # <<>>
  /\ LET res == add_paths_pass(Self, helper, added)
     IN /\ paths' = res.pb.paths
        /\ tree' = res.pb.tree
        /\ helper' = res.helper
        /\ added' = res.added
  /\ UNCHANGED <<other, pc, result, codecvars, entvars, csvvars>>

\* the loop condition fails: return added (line 78)
AddPathsReturn ==
  /\ pc = "loop"
  /\ helper = <<>>
  /\ pc' = "idle"
  /\ result' = [op |-> "add_paths", ret |-> added]
  /\ added' = 0
  /\ UNCHANGED <<paths, tree, helper, other, codecvars, entvars, csvvars>>

\* self.combine(o) is entered with another pathbuilder object o
CombineCall(o) ==
  /\ pc = "idle"
  /\ Len(paths) + Len(o.paths) <= MaxCombined
  /\ Len(combine(Self, o, FALSE).self.paths) <= MaxPaths
  /\ other' = [aliased |-> FALSE, paths |-> o.paths, tree |-> o.tree]
  /\ pc' = "combine"
  /\ result' = [op |-> "running"]
  /\ UNCHANGED <<paths, tree, helper, added, codecvars, entvars, csvvars>>

\* self.combine(self) is entered
CombineSelfCall ==
  /\ pc = "idle"
  /\ other' = [aliased |-> TRUE]
  /\ pc' = "combine"
  /\ result' = [op |-> "running"]
  /\ UNCHANGED <<paths, tree, helper, added, codecvars, entvars, csvvars>>

\* the pathbuilder that the parameter other refers to
Other == IF other.aliased THEN Self
         ELSE [paths |-> other.paths, tree |-> other.tree]

\* the body of combine (lines 170-174)
CombineRun ==
  /\ pc = "combine"
  /\ LET res == combine(Self, Other, other.aliased)
     IN /\ paths' = res.self.paths
        /\ tree' = res.self.tree
        /\ result' = [op |-> "combine", ret |-> res.ret,
                      aliased |-> other.aliased,
                      offered |-> Len(Other.paths),
                      taken |-> Len(res.self.paths) - Len(paths)]
  /\ other' = None
  /\ pc' = "idle"
  /\ UNCHANGED <<helper, added, codecvars, entvars, csvvars>>

GetPathForId(q) ==
  /\ pc = "idle"
  /\ result' = [op |-> "get_path_for_id", arg |-> q,
                ret |-> get_path_for_id(paths, q)]
  /\ UNCHANGED <<paths, tree, helper, added, other, pc, codecvars, entvars, csvvars>>

DistinctIds(s) == \A a, b \in 1..Len(s) : a # b => s[a].id # s[b].id

\* pc is tested before the inputs are enumerated.  A sequence that repeats
\* an id builds the pathbuilder its first occurrences build.
Next ==
  \/ \E r \in Records : AddPath(r)
  \/ /\ pc = "idle"
     /\ \E n \in 0..Min(MaxBatch, Max(0, MaxPaths - Len(paths))) :
          \E m \in [1..n -> Entries] : DistinctKeys(m) /\ AddPathsCall(m)
  \/ AddPathsPass
  \/ AddPathsReturn
  \/ /\ pc = "idle"
     /\ \E n \in 0..Min(MaxOther, Max(0, MaxCombined - Len(paths))) :
          \E s \in [1..n -> Records] :
             DistinctIds(s) /\ CombineCall(build(Fresh, s))
  \/ CombineSelfCall
  \/ CombineRun
  \/ \E q \in FieldIds : GetPathForId(q)

\* ====================================================== FieldTypeFormatter
\* Python values of a field item: a str, None or the empty list.
Str(s) == [t |-> "str", v |-> s]

PyNone == [t |-> "NoneType", v |-> ""]

PyEmptyList == [t |-> "list", v |-> ""]

\* str(x)
py_str(x) == IF x.t = "str" THEN x.v
             ELSE IF x.t = "NoneType" THEN "None" ELSE "[]"

\* repr(x), for strings that hold no quote or backslash
py_repr(x) == IF x.t = "str" THEN "'" \o x.v \o "'" ELSE py_str(x)

\* A field item is a dict: a sequence of items (k, v) in insertion order.
Item(k, v) == [k |-> k, v |-> v]

HasItem(d, k) == \E n \in 1..Len(d) : d[n].k = k

ItemGet(d, k) == d[CHOOSE n \in 1..Len(d) : d[n].k = k].v

RECURSIVE dict_repr_from(_, _)
dict_repr_from(d, n) ==
  IF n > Len(d) THEN ""
  ELSE (IF n > 1 THEN ", " ELSE "")
       \o "'" \o d[n].k \o "': " \o py_repr(d[n].v)
       \o dict_repr_from(d, n + 1)

\* repr(value) of a dict
dict_repr(d) == "{" \o dict_repr_from(d, 1) \o "}"

WISSKI_INDIVIDUAL == "wisski_individual"

\* "not field_type": the field type is None or the empty string
Absent == ""

\* the field types the docstring of format_value lists, and the absent one
FieldTypes ==
  {Absent, "comment", "datetime", "file_uri", "file", "geofield", "image",
   "link", "list_integer", "list_float", "list_string", "path",
   "text_with_summary", "text", "text_long", "integer", "email", "changed",
   "string_long", "uri", "password", "string", "boolean", "decimal",
   "language", "uuid", "float", "entity_reference", "created", "map",
   "timestamp"}

Scalars == {"", "x", "42", "http://e/1", "a b"}

format_value(ft, value) ==
  IF ft = Absent \/ ft = "entity_reference"
  THEN <<Item("target_uri", Str(value)),
         Item("target_type", Str(WISSKI_INDIVIDUAL))>>
  ELSE IF ft = "text_long"
  THEN <<Item("value", Str(value)), Item("format", Str("basic_html"))>>
  ELSE IF ft = "image"
  THEN <<Item("target_id", Str(value)), Item("alt", PyNone),
         Item("title", PyNone), Item("target_type", Str("file")),
         Item("url", Str("some URL"))>>
  ELSE IF ft = "link"
  THEN <<Item("uri", Str(value)), Item("title", Str(value)),
         Item("options", PyEmptyList)>>
  ELSE <<Item("value", Str(value))>>

Returned(x) == [raised |-> "", ret |-> x]

Raised(e) == [raised |-> e, ret |-> PyNone]

\* value[k]: the item, or KeyError
Subscript(d, k) == IF HasItem(d, k) THEN Returned(ItemGet(d, k))
                   ELSE Raised("KeyError")

\* str(value[k])
StrSubscript(d, k) == IF HasItem(d, k) THEN Returned(Str(py_str(ItemGet(d, k))))
                      ELSE Raised("KeyError")

get_value(ft, value) ==
  IF ft = Absent \/ ft = "entity_reference"
  THEN StrSubscript(value, "target_uri")
  ELSE IF ft = "image"
  THEN StrSubscript(value, "target_id")
  ELSE IF ft = "link"
  THEN IF ~HasItem(value, "uri") THEN Raised("KeyError")
       ELSE Returned(Str("<a href=" \o py_str(ItemGet(value, "uri")) \o ">"
                         \o py_str(ItemGet(value,
                                           IF HasItem(value, "title")
                                           THEN "title" ELSE "uri"))
                         \o "</a>"))
  ELSE IF ft = "string"
  THEN Subscript(value, "value")
  ELSE IF ft = "text_long"
  THEN Subscript(value, "value")
  ELSE IF ft = "file"
  THEN Subscript(value, "url")
  ELSE IF HasItem(value, "value")
  THEN Returned(ItemGet(value, "value"))
  ELSE Returned(Str(dict_repr(value)))

CodecOff ==
  /\ field_type = Absent
  /\ scalar = ""
  /\ wire = None
  /\ decoded = None
  /\ cpc = "off"

CodecInit ==
  /\ PbInit
  /\ EntOff
  /\ CsvOff
  /\ field_type \in FieldTypes
  /\ scalar \in Scalars
  /\ wire = None
  /\ decoded = None
  /\ cpc = "input"

FormatValue ==
  /\ cpc = "input"
  /\ wire' = format_value(field_type, scalar)
  /\ cpc' = "formatted"
  /\ UNCHANGED <<field_type, scalar, decoded, pbvars, entvars, csvvars>>

GetValue ==
  /\ cpc = "formatted"
  /\ decoded' = get_value(field_type, wire)
  /\ cpc' = "decoded"
  /\ UNCHANGED <<field_type, scalar, wire, pbvars, entvars, csvvars>>

\* The keys get_value reads, in the order a field item lists them.
ItemKeys == <<"value", "target_uri", "target_id", "uri", "title", "url">>

\* The field item that holds exactly the keys of S, each mapped to v.
Mapping(S, v) ==
  LET ks == SelectSeq(ItemKeys, LAMBDA k : k \in S)
  IN [n \in 1..Len(ks) |-> Item(ks[n], Str(v))]

\* get_value is handed a field item that format_value did not build.
GetValueOf(S) ==
  /\ cpc = "input"
  /\ wire' = Mapping(S, scalar)
  /\ decoded' = get_value(field_type, wire')
  /\ cpc' = "got"
  /\ UNCHANGED <<field_type, scalar, pbvars, entvars, csvvars>>

CodecNext ==
  \/ FormatValue
  \/ GetValue
  \/ \E S \in SUBSET SeqToSet(ItemKeys) : GetValueOf(S)

\* ================================================================= Entity
WISSKI_BUNDLE == "wisski_bundle"

\* A path of the pathbuilder the entities are bound to.
Path(i, p, g, f, b, ft) ==
  [id |-> i, parent |-> p, enabled |-> TRUE, is_group |-> g,
   field |-> f, bundle |-> b, fieldtype |-> ft]

\* The pathbuilder of the entities: bundle B holds the field f1, of field
\* type ft, and the group g1 of bundle B2, which holds the field f2.
Schema(ft) ==
  build(Fresh, <<Path(1, ROOT, TRUE, "B", "B", "entity_reference"),
                 Path(2, 1, FALSE, "f1", "B", ft),
                 Path(3, 1, TRUE, "g1", "B2", "entity_reference"),
                 Path(4, 3, FALSE, "f2", "B2", "string")>>)

\* self.uri of an entity without an URI
NoUri == ""

\* Entity(api, bundle_id, fields, uri).  fields is a dict: items (k, v) in
\* insertion order, v the sequence of values, each a str or an Entity.
Entity(bundle_id, fields, uri) ==
  [t |-> "Entity", bundle_id |-> bundle_id, fields |-> fields, uri |-> uri,
   saved_hash |-> None, unused_fields |-> <<>>]

IsEntity(value) == value.t = "Entity"

\* d[k] = v
dict_set(d, k, v) ==
  IF HasItem(d, k)
  THEN [n \in 1..Len(d) |-> IF d[n].k = k THEN Item(k, v) ELSE d[n]]
  ELSE Append(d, Item(k, v))

RECURSIVE dict_update(_, _)
\* d.update(u)
dict_update(d, u) ==
  IF u = <<>> THEN d
  ELSE dict_update(dict_set(d, Head(u).k, Head(u).v), Tail(u))

\* a dict that is the value of an item of a field item
Dict(d) == [t |-> "dict", d |-> d]

\* what a method did: it returned out, or raised
Ok(x) == [raised |-> "", out |-> x]

Err(e) == [raised |-> e, out |-> <<>>]

RECURSIVE search_in_tree(_, _, _)
RECURSIVE search_in_children(_, _, _, _)

search_in_children(pths, needle, children, k) ==
  IF k > Len(children) THEN None
  ELSE LET found == search_in_tree(pths, needle, children[k])
       IN IF found # None THEN found
          ELSE search_in_children(pths, needle, children, k + 1)

search_in_tree(pths, needle, haystack) ==
  IF /\ InPaths(pths, haystack.id)
     /\ needle \in {PathsGet(pths, haystack.id).field,
                    PathsGet(pths, haystack.id).bundle}
  THEN haystack
  ELSE search_in_children(pths, needle, haystack.children, 1)

\* the node, or NoSuchPathException
get_subtree_for_field_id(pb, field_id) ==
  LET found == search_in_tree(pb.paths, field_id, pb.tree)
  IN IF found # None THEN Ok(found) ELSE Err("NoSuchPathException")

RECURSIVE serialize(_, _)
RECURSIVE serialize_values(_, _, _, _, _)
RECURSIVE serialize_children(_, _, _, _, _)

\* lines 281-290: the field data of the values from the k-th on.  A value
\* that is no Entity is a str.
serialize_values(pb, path, values, k, field_data) ==
  IF k > Len(values) THEN Ok(field_data)
  ELSE IF /\ path.is_group \/ path.fieldtype = "entity_reference"
          /\ IsEntity(values[k])
  THEN IF Len(values[k].fields) = 0
       THEN serialize_values(pb, path, values, k + 1, field_data)
       ELSE LET child_values == serialize(values[k], pb)
            IN IF child_values.raised # "" THEN child_values
               ELSE serialize_values(pb, path, values, k + 1,
                      Append(field_data,
                             <<Item("entity", Dict(child_values.out))>>))
  ELSE serialize_values(pb, path, values, k + 1,
         Append(field_data, format_value(path.fieldtype, values[k].v)))

\* lines 269-292: the child paths of the bundle from the k-th on
serialize_children(self, pb, children, k, entity_data) ==
  IF k > Len(children) THEN Ok(entity_data)
  ELSE LET path == PathsGet(pb.paths, children[k].id)
           field_id == path.field
       IN IF ~HasItem(self.fields, field_id)
          THEN serialize_children(self, pb, children, k + 1, entity_data)
          ELSE LET field_data ==
                     serialize_values(pb, path, ItemGet(self.fields, field_id),
                                      1, <<>>)
               IN IF field_data.raised # "" THEN field_data
                  ELSE serialize_children(self, pb, children, k + 1,
                         dict_set(entity_data, field_id, field_data.out))

serialize(self, pb) ==
  LET bundle_marker ==
        <<Item("bundle", <<<<Item("target_id", Str(self.bundle_id)),
                             Item("target_type", Str(WISSKI_BUNDLE))>>>>)>>
      entity_data ==
        IF self.uri # NoUri
        THEN Append(bundle_marker,
                    Item("wisski_uri", <<<<Item("value", Str(self.uri))>>>>))
        ELSE bundle_marker
      bundle_path == get_subtree_for_field_id(pb, self.bundle_id)
  IN IF bundle_path.raised # "" THEN Err(bundle_path.raised)
     ELSE LET filled == serialize_children(self, pb, bundle_path.out.children,
                                           1, entity_data)
          IN IF filled.raised # "" THEN filled
             ELSE Ok(dict_update(filled.out, self.unused_fields))

\* The keys of the wire format, in the order sort_keys puts them.
SortedKeys ==
  <<"B", "B2", "a0", "alt", "bundle", "entity", "f1", "f2", "f9", "format",
    "g1", "options", "target_id", "target_type", "target_uri", "title",
    "uri", "url", "value", "wisski_uri">>

\* the items of a dict in the order of their keys
sort_keys(d) ==
  LET ks == SelectSeq(SortedKeys, LAMBDA k : HasItem(d, k))
  IN [n \in 1..Len(ks) |-> Item(ks[n], ItemGet(d, ks[n]))]

RECURSIVE json_dumps(_)
\* json.dumps(d, sort_keys=True) of a wire object: the text is the object
\* with the keys of every dict in it sorted.
json_dumps(d) ==
  LET field_item(i) ==
        sort_keys([n \in 1..Len(i) |->
                     Item(i[n].k, IF i[n].v.t = "dict"
                                  THEN Dict(json_dumps(i[n].v.d))
                                  ELSE i[n].v)])
      field_data(l) == [n \in 1..Len(l) |-> field_item(l[n])]
  IN sort_keys([n \in 1..Len(d) |-> Item(d[n].k, field_data(d[n].v))])

\* Entity._hash: the text, or what serialize raised
_hash(self, pb) ==
  LET s == serialize(self, pb)
  IN IF s.raised # "" THEN s ELSE Ok([h |-> json_dumps(s.out)])

\* Entity._mark_unmodified
_mark_unmodified(self, pb) ==
  LET h == _hash(self, pb)
  IN IF h.raised # "" THEN [raised |-> h.raised, out |-> self]
     ELSE Ok([self EXCEPT !.saved_hash = h.out])

\* Mutant: the snapshot is never compared with the current serialization.
modified_once(self, pb) == Ok(self.saved_hash = None)

\* Entity.modified: out is the bool
modified(self, pb) ==
  IF self.saved_hash = None THEN Ok(TRUE)
  ELSE LET h == _hash(self, pb)
       IN IF h.raised # "" THEN h ELSE Ok(self.saved_hash # h.out)

RECURSIVE load(_, _, _, _)
RECURSIVE load_values(_, _, _, _, _, _)
RECURSIVE load_items(_, _, _, _, _)

\* Entity.deserialize
deserialize(pb, data_, modified_) ==
  load(Entity("", <<>>, NoUri), data_, modified_, pb)

\* lines 338-345: the values of a field from the k-th on
load_values(pb, path, values, modified_, k, new_field_value) ==
  IF k > Len(values) THEN Ok(new_field_value)
  ELSE IF HasItem(values[k], "entity")
  THEN LET sub == deserialize(pb, ItemGet(values[k], "entity").d, modified_)
       IN IF sub.raised # "" THEN Err(sub.raised)
          ELSE load_values(pb, path, values, modified_, k + 1,
                           Append(new_field_value, sub.out))
  ELSE LET value == get_value(path.fieldtype, values[k])
       IN IF value.raised # "" THEN Err(value.raised)
          ELSE load_values(pb, path, values, modified_, k + 1,
                           Append(new_field_value, value.ret))

\* lines 322-351: the items of data from the k-th on.  When a value raises,
\* the entity stays as the loop left it.
load_items(self, pb, data_, modified_, k) ==
  IF k > Len(data_) THEN Ok(self)
  ELSE LET field_id == data_[k].k
           values == data_[k].v
           path == get_path_for_id(pb.paths, field_id)
       IN IF field_id = "bundle"
          THEN load_items([self EXCEPT !.bundle_id =
                                         ItemGet(values[1], "target_id").v],
                          pb, data_, modified_, k + 1)
          ELSE IF field_id = "wisski_uri"
          THEN load_items([self EXCEPT !.uri = ItemGet(values[1], "value").v],
                          pb, data_, modified_, k + 1)
          ELSE IF path = None
          THEN load_items([self EXCEPT !.unused_fields =
                                         dict_set(@, field_id, values)],
                          pb, data_, modified_, k + 1)
          ELSE LET new_field_value ==
                     load_values(pb, path, values, modified_, 1, <<>>)
                   initialized ==
                     IF HasItem(self.fields, field_id) THEN self.fields
                     ELSE dict_set(self.fields, field_id, <<>>)
               IN IF new_field_value.raised # ""
                  THEN [raised |-> new_field_value.raised, out |-> self]
                  ELSE load_items(
                         [self EXCEPT !.fields =
                            IF Len(new_field_value.out) # 0
                            THEN dict_set(initialized, field_id,
                                          new_field_value.out)
                            ELSE initialized],
                         pb, data_, modified_, k + 1)

\* Entity.load: out is the entity afterwards, also when it raised
load(self, data_, modified_, pb) ==
  LET emptied == [self EXCEPT !.fields = <<>>, !.unused_fields = <<>>]
      loaded == load_items(emptied, pb, data_, modified_, 1)
  IN IF loaded.raised # "" \/ modified_ THEN loaded
     ELSE _mark_unmodified(loaded.out, pb)

\* ------------------------------------------------- the entities of a run
\* the str values of the fields
Values == {Str("x"), Str("y")}

\* The value sequences of at most n values of S.
ValueSeqs(S, n) == UNION {[1..m -> S] : m \in 0..n}

\* no item, or the item of key k with one of the value sequences
OptionalItem(k, seqs) == {<<>>} \cup {<<Item(k, vs)>> : vs \in seqs}

\* The entities of bundle B2: no fields, or the field f2.
SubEntities ==
  {Entity("B2", f, u) :
     f \in OptionalItem("f2", ValueSeqs({Str("y")}, MaxSubs)),
     u \in {NoUri, "u2"}}

\* The values of the group g1: sub-entities, or the URI of one as a str.
GroupSeqs == ValueSeqs(SubEntities \cup {Str("u3")}, MaxSubs)

\* The entities of bundle B a caller builds: any of the fields f1 and g1
\* of the bundle, or f2, which is a field of bundle B2.
Entities ==
  {Entity("B", a \o b, u) :
     a \in OptionalItem("f1", ValueSeqs(Values, MaxValues)),
     b \in OptionalItem("g1", GroupSeqs),
     u \in {NoUri, "u1"}}
  \cup {Entity("B", a \o <<Item("f2", <<Str("y")>>)>>, NoUri) :
          a \in OptionalItem("f1", {<<Str("x")>>})}

\* One field type for every branch of format_value and of get_value.
EntityFieldTypes ==
  {Absent, "entity_reference", "image", "link", "string", "text_long",
   "file", "integer"}

\* The field ids no path of the pathbuilder has, and what the remote sends
\* for one.
UnknownFields == {"f9", "a0"}

RawValues == {<<<<Item("value", Str("z"))>>>>}

RECURSIVE persisted(_, _)
\* What the remote returns for a wire object it was sent: the object, with
\* an URI for every entity in it that had none.
persisted(d, uri) ==
  LET field_item(i) ==
        [n \in 1..Len(i) |->
           Item(i[n].k, IF i[n].v.t = "dict"
                        THEN Dict(persisted(i[n].v.d, "s2"))
                        ELSE i[n].v)]
      rest == [n \in 1..Len(d) - 1 |->
                 Item(d[n + 1].k,
                      IF d[n + 1].k \in {"wisski_uri"} \cup UnknownFields
                      THEN d[n + 1].v
                      ELSE [m \in 1..Len(d[n + 1].v) |->
                              field_item(d[n + 1].v[m])])]
  IN IF HasItem(d, "wisski_uri") THEN <<d[1]>> \o rest
     ELSE <<d[1], Item("wisski_uri", <<<<Item("value", Str(uri))>>>>)>>
          \o rest

\* ------------------------------------------------------ the Entity's run
\* the pathbuilder of the api, and a remote that was sent nothing yet
ApiInit ==
  /\ \E ft \in EntityFieldTypes : /\ paths = Schema(ft).paths
                                  /\ tree = Schema(ft).tree
  /\ helper = <<>>
  /\ added = 0
  /\ other = None
  /\ pc = "idle"
  /\ result = [op |-> "init"]
  /\ CodecOff
  /\ CsvOff
  /\ data = <<>>
  /\ orig = None
  /\ calls = 0

\* an entity the caller built
EntityInit ==
  /\ ApiInit
  /\ ent \in Entities
  /\ eres = [op |-> "new"]

RECURSIVE SingleValued(_)
\* every field of the entity and of its nested entities holds one value at
\* most
SingleValued(e) ==
  \A n \in 1..Len(e.fields) :
    /\ Len(e.fields[n].v) <= 1
    /\ \A m \in 1..Len(e.fields[n].v) :
         IsEntity(e.fields[n].v[m]) => SingleValued(e.fields[n].v[m])

\* an entity the caller built, every field holding one value at most
SaveInit ==
  /\ ApiInit
  /\ ent \in {x \in Entities : SingleValued(x)}
  /\ eres = [op |-> "new"]

\* Api.get_entity(uri), the remote holding what the entity serializes to:
\* Entity.deserialize(api, data, modified=False)
GetEntity ==
  /\ eres.op = "new"
  /\ LET l == deserialize(Self, serialize(ent, Self).out, FALSE)
     IN /\ l.raised = ""
        /\ ent' = l.out
        /\ eres' = [op |-> "load", raised |-> "", round |-> 0,
                    modified |-> FALSE, serialized |-> TRUE]
  /\ UNCHANGED <<data, orig, calls, pbvars, codecvars, csvvars>>

\* the serialize calls so far
Round == IF eres.op = "new" THEN 0 ELSE eres.round

\* e.serialize()
Serialize ==
  /\ eres.op \in {"new", "load"}
  /\ Round < MaxRounds
  /\ LET s == serialize(ent, Self)
     IN /\ data' = s.out
        /\ eres' = [op |-> "serialize", raised |-> s.raised,
                    round |-> Round + 1]
  /\ orig' = ent
  /\ UNCHANGED <<ent, calls, pbvars, codecvars, csvvars>>

\* The remote adds a field of another pathbuilder to the wire object.
RemoteAdds(k, raw) ==
  /\ eres.op = "serialize"
  /\ eres.raised = ""
  /\ ~HasItem(data, k)
  /\ data' = Append(data, Item(k, raw))
  /\ eres' = [op |-> "remote", round |-> Round]
  /\ UNCHANGED <<ent, orig, calls, pbvars, codecvars, csvvars>>

\* ent.load(data, modified), or Entity.deserialize(api, data, modified)
Load(modified_, fresh) ==
  /\ \/ eres.op = "serialize" /\ eres.raised = ""
     \/ eres.op = "remote"
  /\ LET l == IF fresh THEN deserialize(Self, data, modified_)
              ELSE load(ent, data, modified_, Self)
     IN /\ ent' = l.out
        /\ eres' = [op |-> "load", raised |-> l.raised, round |-> Round,
                    modified |-> modified_,
                    serialized |-> eres.op = "serialize"]
  /\ UNCHANGED <<data, orig, calls, pbvars, codecvars, csvvars>>

\* The caller assigns another value sequence to a field of the entity.
Mutate(f, vs) ==
  /\ eres.op \in {"load", "save", "save_entities"}
  /\ eres.raised = ""
  /\ HasItem(ent.fields, f)
  /\ vs # ItemGet(ent.fields, f)
  /\ ent' = [ent EXCEPT !.fields = dict_set(@, f, vs)]
  /\ eres' = [op |-> "mutate", field |-> f]
  /\ UNCHANGED <<data, orig, calls, pbvars, codecvars, csvvars>>

\* The caller assigns another value sequence to the field f2 of the first
\* value of g1, a nested entity.
MutateNested(vs) ==
  /\ eres.op = "load"
  /\ eres.raised = ""
  /\ HasItem(ent.fields, "g1")
  /\ LET g == ItemGet(ent.fields, "g1")
     IN /\ g # <<>>
        /\ IsEntity(g[1])
        /\ HasItem(g[1].fields, "f2")
        /\ vs # ItemGet(g[1].fields, "f2")
        /\ ent' = [ent EXCEPT !.fields =
                     dict_set(@, "g1",
                              [g EXCEPT ![1].fields = dict_set(@, "f2", vs)])]
  /\ eres' = [op |-> "mutate", field |-> "g1.f2"]
  /\ UNCHANGED <<data, orig, calls, pbvars, codecvars, csvvars>>

\* the one element of a set of one element
Only(S) == CHOOSE x \in S : TRUE

\* lines 729-735: the answer is loaded into the entity
save_entities_answered(entity, pb, response) ==
  Only({[raised |-> loaded.raised, posts |-> 1, entity |-> loaded.out,
         returned |-> IF loaded.raised = "" THEN "entities" ELSE "",
         data |-> response] :
          loaded \in {load(entity, response, FALSE, pb)}})

\* lines 723-735: the serialized entity is posted
save_entities_posted(entity, pb, ok, posted) ==
  IF posted.raised # ""
  THEN [raised |-> posted.raised, posts |-> 0, entity |-> entity,
        returned |-> "", data |-> <<>>]
  ELSE IF ~ok
  THEN [raised |-> "", posts |-> 1, entity |-> entity,
        returned |-> "None", data |-> posted.out]
  ELSE Only({save_entities_answered(entity, pb, response) :
               response \in {persisted(posted.out, "s1")}})

\* Api.save_entities([entity]) with the transport answering 200 (ok) or not:
\* what it posts, the entity afterwards, and what it returns or raises.
save_entities(entity, pb, ok) ==
  Only({save_entities_posted(entity, pb, ok, posted) :
          posted \in {serialize(entity, pb)}})

\* Api.save(entity): save_entities([entity])[0]
api_save(entity, pb, ok) ==
  Only({IF s.raised = "" /\ s.returned = "None"
        THEN [s EXCEPT !.raised = "TypeError", !.returned = ""]
        ELSE s :
          s \in {save_entities(entity, pb, ok)}})

\* line 310-311: self.api.save(self), return True
save_delegated(s) ==
  [raised |-> s.raised, posts |-> s.posts, entity |-> s.entity,
   ret |-> s.raised = "", data |-> s.data]

\* Entity.save(force)
save(self, pb, force, ok) ==
  Only({IF m.raised # "" /\ ~force
        THEN [raised |-> m.raised, posts |-> 0, entity |-> self,
              ret |-> FALSE, data |-> <<>>]
        ELSE IF ~force /\ ~m.out
        THEN [raised |-> "", posts |-> 0, entity |-> self, ret |-> FALSE,
              data |-> <<>>]
        ELSE Only({save_delegated(s) : s \in {api_save(self, pb, ok)}}) :
          m \in {IF force THEN Ok(TRUE) ELSE modified(self, pb)}})

\* ent.save(force)
Save(force, ok) ==
  /\ eres.op \in {"new", "load", "mutate", "save", "save_entities"}
  /\ \E s \in {save(ent, Self, force, ok)}, m \in {modified(ent, Self)} :
       /\ calls + s.posts <= MaxCalls
       /\ ent' = s.entity
       /\ calls' = calls + s.posts
       /\ data' = IF s.posts = 0 THEN data ELSE s.data
       /\ orig' = IF s.posts = 0 THEN orig ELSE ent
       /\ eres' = [op |-> "save", force |-> force, modified |-> m.out,
                   raised |-> s.raised, ret |-> s.ret, posts |-> s.posts,
                   ok |-> ok /\ s.posts > 0]
  /\ UNCHANGED <<pbvars, codecvars, csvvars>>

\* api.save_entities([ent])
SaveEntities(ok) ==
  /\ eres.op \in {"new", "load", "mutate"}
  /\ calls < MaxCalls
  /\ \E s \in {save_entities(ent, Self, ok)} :
       /\ ent' = s.entity
       /\ calls' = calls + s.posts
       /\ data' = s.data
       /\ orig' = ent
       /\ eres' = [op |-> "save_entities", ok |-> ok, raised |-> s.raised,
                   returned |-> s.returned]
  /\ UNCHANGED <<pbvars, codecvars, csvvars>>

\* serialize and load, two rounds of them
EntityNext ==
  \/ Serialize
  \/ \E k \in UnknownFields, raw \in RawValues : RemoteAdds(k, raw)
  \/ \E modified_, fresh \in BOOLEAN : Load(modified_, fresh)

\* a load that snapshots the fingerprint, then an assignment to a field
ModifiedNext ==
  \/ Serialize
  \/ \E fresh \in BOOLEAN : Load(FALSE, fresh)
  \/ \E vs \in ValueSeqs(Values, MaxValues) : Mutate("f1", vs)
  \/ \E vs \in GroupSeqs : Mutate("g1", vs)
  \/ \E vs \in ValueSeqs({Str("y")}, MaxSubs) : MutateNested(vs)

\* saves of an entity that is new, fetched, or fetched and then changed
SaveNext ==
  \/ GetEntity
  \/ \E vs \in ValueSeqs({Str("z")}, 1) : Mutate("f1", vs)
  \/ \E force, ok \in BOOLEAN : Save(force, ok)
  \/ \E ok \in BOOLEAN : SaveEntities(ok)

\* ============================================================ Entity.to_csv
RECURSIVE Join(_)
\* "|".join(parts) of a list of str
Join(parts) ==
  IF parts = <<>> THEN ""
  ELSE IF Len(parts) = 1 THEN parts[1]
  ELSE parts[1] \o "|" \o Join(Tail(parts))

\* the keys of a dict in insertion order
Keys(d) == [n \in 1..Len(d) |-> d[n].k]

RECURSIVE to_csv(_, _, _)
RECURSIVE csv_row(_, _, _, _, _, _, _)
RECURSIVE csv_subs(_, _, _, _, _, _)

\* lines 420-428: the values of a group field from the k-th on.  files are
\* the files of the folder, log the entities whose row was appended.
csv_subs(pb, field_values, k, uris, fs, log) ==
  IF k > Len(field_values)
  THEN [raised |-> "", out |-> uris, files |-> fs, log |-> log]
  ELSE IF ~IsEntity(field_values[k])
  THEN [raised |-> "AttributeError", out |-> <<>>, files |-> fs, log |-> log]
  ELSE LET sub == to_csv(field_values[k], pb, fs)
       IN IF sub.raised # ""
          THEN [raised |-> sub.raised, out |-> <<>>, files |-> sub.files,
                log |-> log \o sub.log]
          ELSE csv_subs(pb, field_values, k + 1,
                        Append(uris, field_values[k].uri), sub.files,
                        log \o sub.log)

\* lines 407-431: the cells of the row for the headers from the k-th on
csv_row(self, pb, headers, k, row, fs, log) ==
  IF k > Len(headers)
  THEN [raised |-> "", out |-> row, files |-> fs, log |-> log]
  ELSE LET field_id == headers[k]
           failed(e) == [raised |-> e, out |-> <<>>, files |-> fs,
                         log |-> log]
       IN IF field_id = "uri"
          THEN csv_row(self, pb, headers, k + 1, Append(row, self.uri), fs,
                       log)
          ELSE IF ~HasItem(self.fields, field_id) THEN failed("KeyError")
          ELSE LET field_values == ItemGet(self.fields, field_id)
                   pb_path == get_path_for_id(pb.paths, field_id)
               IN IF pb_path = None THEN failed("TypeError")
                  ELSE IF pb_path.is_group
                  THEN LET subs == csv_subs(pb, field_values, 1, <<>>, fs,
                                            log)
                       IN IF subs.raised # "" THEN subs
                          ELSE csv_row(self, pb, headers, k + 1,
                                       Append(row, Join(subs.out)),
                                       subs.files, subs.log)
                  ELSE IF \E n \in 1..Len(field_values) :
                            IsEntity(field_values[n])
                  THEN failed("TypeError")
                  ELSE csv_row(self, pb, headers, k + 1,
                         Append(row,
                                Join([n \in 1..Len(field_values) |->
                                        field_values[n].v])),
                         fs, log)

\* Entity.to_csv(folder): fs maps the bundle id of every file of the folder
\* to its rows.  The file is opened for appending, and so created, before
\* the row is built; header and row are written after it.
to_csv(self, pb, fs) ==
  LET filename == self.bundle_id
      file_exists == HasItem(fs, filename)
      headers == IF file_exists THEN ItemGet(fs, filename)[1]
                 ELSE <<"uri">> \o Keys(self.fields)
      opened == IF file_exists THEN fs ELSE dict_set(fs, filename, <<>>)
      built == csv_row(self, pb, headers, 1, <<>>, opened, <<>>)
      written == ItemGet(built.files, filename)
                   \o (IF file_exists THEN <<>> ELSE <<headers>>)
                   \o <<built.out>>
  IN IF self.uri = NoUri
     THEN [raised |-> "MissingUriException", files |-> fs, log |-> <<>>]
     ELSE IF file_exists /\ ItemGet(fs, filename) = <<>>
     THEN [raised |-> "StopIteration", files |-> fs, log |-> <<>>]
     ELSE IF built.raised # ""
     THEN [raised |-> built.raised, files |-> built.files, log |-> built.log]
     ELSE [raised |-> "", files |-> dict_set(built.files, filename, written),
           log |-> Append(built.log, self)]

\* ----------------------------------------------------- the to_csv run
\* the pathbuilder B{f1, g1 -> B2{f2, g2 -> B3{f3}}}
CsvSchema ==
  build(Fresh,
        <<Path(1, ROOT, TRUE, "B", "B", "entity_reference"),
          Path(2, 1, FALSE, "f1", "B", "string"),
          Path(3, 1, TRUE, "g1", "B2", "entity_reference"),
          Path(4, 3, FALSE, "f2", "B2", "string"),
          Path(5, 3, TRUE, "g2", "B3", "entity_reference"),
          Path(6, 5, FALSE, "f3", "B3", "string")>>)

\* the entities of bundle B3, with and without URI
CsvLeaves ==
  {Entity("B3", <<Item("f3", <<Str("z")>>)>>, u) : u \in {NoUri, "u5"}}

\* the entities of bundle B2: with and without URI, with and without a
\* nested entity
CsvSubs ==
  {Entity("B2", <<Item("f2", <<Str("y")>>)>>, u) : u \in {NoUri, "u2", "u3"}}
  \cup {Entity("B2", <<Item("f2", <<Str("y")>>), Item("g2", <<l>>)>>, "u4") :
          l \in CsvLeaves}

\* The entities to_csv is called on: entities of bundle B whose fields are
\* in either order, whose group holds entities or a str, and the entities
\* of bundle B2.
CsvEntities ==
  {Entity("B", f, u) :
     f \in {a \o b :
              a \in OptionalItem("f1", {<<Str("x")>>, <<Str("x"), Str("y")>>}),
              b \in OptionalItem("g1",
                                 ValueSeqs(CsvSubs \cup {Str("u3")},
                                           MaxCsvSubs))}
           \cup {<<Item("g1", <<g>>), Item("f1", <<Str("x")>>)>> :
                   g \in CsvSubs},
     u \in {NoUri, "u1"}}
  \cup CsvSubs

\* the to_csv calls so far
CsvCalls == IF cres.op = "to_csv" THEN cres.n ELSE 0

\* an empty folder
CsvInit ==
  /\ paths = CsvSchema.paths
  /\ tree = CsvSchema.tree
  /\ helper = <<>>
  /\ added = 0
  /\ other = None
  /\ pc = "idle"
  /\ result = [op |-> "init"]
  /\ CodecOff
  /\ EntOff
  /\ files = <<>>
  /\ cres = [op |-> "init"]

\* e.to_csv(folder)
ToCsv(e) ==
  /\ cres.op \in {"init", "to_csv"}
  /\ CsvCalls < MaxCsvCalls
  /\ LET r == to_csv(e, Self, files)
     IN /\ files' = r.files
        /\ cres' = [op |-> "to_csv", n |-> CsvCalls + 1, entity |-> e,
                    raised |-> r.raised, log |-> r.log]
  /\ UNCHANGED <<pbvars, codecvars, entvars>>

CsvNext == \E e \in CsvEntities : ToCsv(e)


\* ======================================================= specifications
vars == <<pbvars, codecvars, entvars, csvvars>>

Init == PbInit /\ CodecOff /\ EntOff /\ CsvOff

\* the pathbuilder
Spec == Init /\ [][Next]_vars

\* the codec: a round trip of one scalar through one field type
CodecSpec == CodecInit /\ [][CodecNext]_vars

\* an entity bound to a pathbuilder and a remote
EntitySpec == EntityInit /\ [][EntityNext]_vars

\* an entity whose fingerprint was snapshotted, then changed by the caller
ModifiedSpec == EntityInit /\ [][ModifiedNext]_vars

\* an entity saved to the remote
SaveSpec == SaveInit /\ [][SaveNext]_vars

\* entities written to the csv files of a folder that starts empty
CsvSpec == CsvInit /\ [][CsvNext]_vars

\* ================================================================ claims
NoDuplicates(s) == Cardinality(SeqToSet(s)) = Len(s)

\* add_path must reject r: disabled, id known, or parent neither root nor
\* attached
MustReject(r) ==
  \/ ~r.enabled
  \/ InPaths(paths, r.id)
  \/ (r.parent # ROOT /\ r.parent \notin Attached(tree))

\* C1: add_path returns false and leaves paths and tree unchanged when the
\* record is disabled, its id is known, or its parent is non-root and not
\* attached; otherwise it returns true and adds exactly one new leaf under
\* the record's parent.
C1_AddPathContract ==
  [][\A r \in Records :
       AddPath(r) =>
         IF MustReject(r)
         THEN result'.ret = FALSE /\ paths' = paths /\ tree' = tree
         ELSE /\ result'.ret = TRUE
              /\ Len(EdgeSeq(tree')) = Len(EdgeSeq(tree)) + 1
              /\ Edges(tree') = Edges(tree) \cup {<<r.parent, r.id>>}]_vars

\* r is offered by the pass about to run, its id was unknown before it and
\* it is the record the table then holds for that id
FirstOffer(r) ==
  /\ \E k \in 1..Len(helper) : helper[k].value = r
  /\ ~InPaths(paths, r.id)
  /\ PathsGet(paths', r.id) = r

RECURSIVE ReachesRoot(_, _)
\* r is enabled and its chain of parents reaches root within n steps through
\* enabled first offers of the pass or nodes attached before it
ReachesRoot(r, n) ==
  /\ r.enabled
  /\ \/ r.parent = ROOT
     \/ r.parent \in Attached(tree)
     \/ /\ n > 0
        /\ \E k \in 1..Len(helper) :
             /\ helper[k].value.id = r.parent
             /\ FirstOffer(helper[k].value)
             /\ ReachesRoot(helper[k].value, n - 1)

\* C2: when add_paths is done, every enabled offered record whose chain of
\* parents reaches root through enabled offered or attached records is
\* attached, whatever the order of the collection.
C2_FixedPointAnyOrder ==
  [][(AddPathsPass /\ helper' = <<>>) =>
       \A k \in 1..Len(helper) :
         (FirstOffer(helper[k].value) /\ ReachesRoot(helper[k].value, MaxId))
           => helper[k].value.id \in Attached(tree')]_vars

\* The while loop is at a state its body maps to itself with the loop
\* condition true: the loop is deterministic, so it repeats that state for
\* ever.
Spinning ==
  /\ pc = "loop"
  /\ helper # <<>>
  /\ add_paths_pass(Self, helper, added)
       = [pb |-> Self, helper |-> helper, added |-> added]

\* C3: add_paths terminates on every finite mapping of keys to records, and
\* the number it returns is the number of records it attached.
C3_AddPathsTerminates ==
  /\ [](~Spinning)
  /\ [][AddPathsPass =>
          added' - added = Len(EdgeSeq(tree')) - Len(EdgeSeq(tree))]_vars

\* r was offered, and rejected only because its parent was not attached:
\* it is enabled, it is the record stored for its id, and it has no node
RejectedForParent(r) ==
  /\ r.enabled
  /\ InPaths(paths, r.id)
  /\ PathsGet(paths, r.id) = r
  /\ r.id \notin Attached(tree)

\* C4: a record rejected only because its parent was not attached is
\* attached under that parent, and true is returned, when it is offered
\* again after the parent was attached.
C4_RetryAfterParent ==
  [][\A r \in Records :
       (AddPath(r) /\ RejectedForParent(r) /\ r.parent \in Attached(tree))
         => (result'.ret = TRUE /\ <<r.parent, r.id>> \in Edges(tree'))]_vars

\* C5: every attached node is a direct child of the node whose id is its
\* record's parent (root for parent "0"), and every attached id occurs at
\* exactly one position of the tree.
C5_ParentBeforeChild ==
  /\ NoDuplicates([k \in 1..Len(EdgeSeq(tree)) |-> EdgeSeq(tree)[k][2]])
  /\ \A e \in Edges(tree) :
       /\ InPaths(paths, e[2])
       /\ PathsGet(paths, e[2]).parent = e[1]
       /\ PathsGet(paths, e[2]).enabled
       /\ e[1] = ROOT \/ e[1] \in Attached(tree)

\* a node hangs below a node that is not root
C5_Witness ==
  /\ result.op = "add_paths"
  /\ result.ret = 2
  /\ \E e \in Edges(tree) : e[1] # ROOT

\* C6: an attached record stays attached under the same parent node, and the
\* record stored for an id is never replaced, removed or moved.
C6_TreeMonotonic ==
  [][/\ \A e \in Edges(tree) : e \in Edges(tree')
     /\ Len(paths') >= Len(paths)
     /\ \A k \in 1..Len(paths) : paths'[k] = paths[k]]_vars

\* add_path was offered a record with a known id while both stored records
\* had nodes, one below the other
C6_Witness ==
  /\ result.op = "add_path"
  /\ result.ret = FALSE
  /\ Cardinality(Attached(tree)) = 2
  /\ \E e \in Edges(tree) : e[1] # ROOT

\* C7: A.combine(B) returns A; A keeps its own records and tree positions;
\* every record attached in B with an id unknown to A and its parent
\* attached in A (before or during the call) is attached in A under that
\* parent; B is not changed.
C7_Combine ==
  [][(CombineRun /\ ~other.aliased) =>
       /\ result'.ret = "self"
       /\ \A k \in 1..Len(paths) : paths'[k] = paths[k]
       /\ \A e \in Edges(tree) : e \in Edges(tree')
       /\ \A k \in 1..Len(Other.paths) :
            LET r == Other.paths[k]
            IN (/\ r.id \in Attached(Other.tree)
                /\ ~InPaths(paths, r.id)
                /\ r.parent \in Attached(tree') \cup {ROOT})
                 => ParentsOf(tree', r.id) = {r.parent}
       /\ combine(Self, Other, FALSE).other = Other]_vars

\* a combine of two offered records: one id was known to self, the other
\* record now hangs below a node that is not root
C7_Witness ==
  /\ result.op = "combine"
  /\ ~result.aliased
  /\ result.offered = 2
  /\ result.taken = 1
  /\ Len(paths) = 2
  /\ \E e \in Edges(tree) : e[1] # ROOT

\* C8: P.combine(P) completes and leaves the record table and the tree of P
\* as they were.
C8_CombineIdempotent ==
  [][(CombineRun /\ other.aliased) =>
       (result'.ret = "self" /\ paths' = paths /\ tree' = tree)]_vars

\* a pathbuilder was combined with itself while it stored a record that has
\* no node although its parent has one
C8_Witness ==
  /\ result.op = "combine"
  /\ result.aliased
  /\ \E k \in 1..Len(paths) :
       /\ paths[k].enabled
       /\ paths[k].id \notin Attached(tree)
       /\ paths[k].parent \in Attached(tree)

\* C9: get_path_for_id returns None or an attached record whose field is the
\* queried id; a rejected record is never returned.
C9_LookupAttachedOnly ==
  result.op = "get_path_for_id" =>
    \/ result.ret = None
    \/ (result.ret.id \in Attached(tree) /\ result.ret.field = result.arg)

\* C10: get_value(T, format_value(T, v)) = v for every field type T of the
\* vocabulary and every string v.
C10_CodecRoundTrip ==
  cpc = "decoded" => decoded = Returned(Str(scalar))

\* The key get_value reads first for a field type.
ExpectedKey(ft) ==
  IF ft = Absent \/ ft = "entity_reference" THEN "target_uri"
  ELSE IF ft = "image" THEN "target_id"
  ELSE IF ft = "link" THEN "uri"
  ELSE IF ft = "file" THEN "url"
  ELSE "value"

\* C11: get_value raises for no field type and no present mapping; when the
\* mapping lacks the key expected for the type, the result is the generic
\* "value" item, or else the string rendering of the whole mapping.
C11_GetValueNeverRaises ==
  cpc = "got" =>
    /\ decoded.raised = ""
    /\ ~HasItem(wire, ExpectedKey(field_type)) =>
         decoded = IF HasItem(wire, "value")
                   THEN Returned(ItemGet(wire, "value"))
                   ELSE Returned(Str(dict_repr(wire)))

RECURSIVE SameFields(_, _)
\* Two fields dicts hold the same field ids with the same value sequences,
\* nested entities compared by bundle and, recursively, by their fields.
SameFields(a, b) ==
  LET SameValue(x, y) ==
        IF IsEntity(x) /\ IsEntity(y)
        THEN x.bundle_id = y.bundle_id /\ SameFields(x.fields, y.fields)
        ELSE ~IsEntity(x) /\ ~IsEntity(y) /\ x = y
  IN /\ {a[n].k : n \in 1..Len(a)} = {b[n].k : n \in 1..Len(b)}
     /\ \A n \in 1..Len(a) :
          LET va == a[n].v
              vb == ItemGet(b, a[n].k)
          IN /\ Len(va) = Len(vb)
             /\ \A m \in 1..Len(va) : SameValue(va[m], vb[m])

\* C12: loading e.serialize() into an entity reproduces the field ids and
\* the value sequences of e, recursively for nested entities, and after a
\* load with modified=false the entity's modified is false.
C12_SerializeLoadRoundTrip ==
  (eres.op = "load" /\ eres.serialized) =>
    /\ eres.raised = ""
    /\ SameFields(ent.fields, orig.fields)
    /\ ~eres.modified => modified(ent, Self) = Ok(FALSE)

\* the n-th key of the wire object is a field id that no path has
UnknownKey(n) ==
  /\ data[n].k \notin {"bundle", "wisski_uri"}
  /\ get_path_for_id(paths, data[n].k) = None

\* C13: after load(data), every key of data that get_path_for_id does not
\* know is held in unused_fields with the value data gave it, and a
\* following serialize() maps the key to exactly that value, also when the
\* entity held fields or unused fields before the load.
C13_UnknownFieldPreserved ==
  eres.op = "load" =>
    \A n \in 1..Len(data) :
      UnknownKey(n) =>
        /\ eres.raised = ""
        /\ HasItem(ent.unused_fields, data[n].k)
        /\ ItemGet(ent.unused_fields, data[n].k) = data[n].v
        /\ serialize(ent, Self).raised = ""
        /\ HasItem(serialize(ent, Self).out, data[n].k)
        /\ ItemGet(serialize(ent, Self).out, data[n].k) = data[n].v

RECURSIVE Effective(_)
\* What the fields dict holds for serialize: the nested entities holding no
\* fields left out, the others without their snapshot.
Effective(fields) ==
  [n \in 1..Len(fields) |->
     Item(fields[n].k,
          LET kept == SelectSeq(fields[n].v,
                                LAMBDA v : ~(IsEntity(v) /\ v.fields = <<>>))
          IN [m \in 1..Len(kept) |->
                IF IsEntity(kept[m])
                THEN [kept[m] EXCEPT !.fields = Effective(@),
                                     !.saved_hash = None]
                ELSE kept[m]])]

\* modified is true without a snapshot and otherwise tells whether the
\* serialization differs from it; after a load with modified=false that
\* did not raise it is false
ModifiedReadsSnapshot ==
  /\ ent.saved_hash = None => modified(ent, Self) = Ok(TRUE)
  /\ ent.saved_hash # None =>
       modified(ent, Self) = Ok(ent.saved_hash # _hash(ent, Self).out)
  /\ (eres.op = "load" /\ eres.raised = "" /\ ~eres.modified) =>
       modified(ent, Self) = Ok(FALSE)

C15_SaveContract ==
  [][eres'.op = "save" =>
       IF ~eres'.force /\ ~eres'.modified
       THEN /\ eres'.raised = ""
            /\ eres'.ret = FALSE
            /\ eres'.posts = 0
            /\ ent' = ent
       ELSE /\ eres'.raised = ""
            /\ eres'.ret = TRUE
            /\ eres'.posts = 1]_vars

\* C16: after save_entities with the transport answering 200 the entity
\* holds what the remote returned (fields, uri, nested entities), its
\* modified is false and a following save(force=false) returns false
\* without a post; after a failed post the entity, its fingerprint
\* included, is as it was.
C16_FingerprintRefresh ==
  [][eres'.op = "save_entities" =>
       IF eres'.ok
       THEN /\ eres'.raised = ""
            /\ eres'.returned = "entities"
            /\ LET fresh == deserialize(Self, data', FALSE).out
               IN /\ ent'.fields = fresh.fields
                  /\ ent'.uri = fresh.uri
                  /\ ent'.unused_fields = fresh.unused_fields
            /\ ent'.uri # NoUri
            /\ modified(ent', Self) = Ok(FALSE)
            /\ save(ent', Self, FALSE, TRUE).ret = FALSE
            /\ save(ent', Self, FALSE, TRUE).posts = 0
       ELSE /\ eres'.raised = ""
            /\ ent' = ent]_vars

\* The field ids of the child paths of the bundle node of e.
ChildFields(e) ==
  LET children == get_subtree_for_field_id(Self, e.bundle_id).out.children
  IN {PathsGet(paths, children[n].id).field : n \in 1..Len(children)}

\* the keys of a wire object that are no markers
FieldKeys(d) == {d[n].k : n \in 1..Len(d)} \ {"bundle", "wisski_uri"}

RECURSIVE NoEmptyShell(_, _)
\* No `entity` element of the wire object d, whose keys of unused fields are
\* unused, holds only markers or only empty field data.
NoEmptyShell(d, unused) ==
  \A n \in 1..Len(d) :
    d[n].k \in FieldKeys(d) \ unused =>
      \A m \in 1..Len(d[n].v) :
        HasItem(d[n].v[m], "entity") =>
          LET sub == ItemGet(d[n].v[m], "entity").d
          IN /\ \E k \in 1..Len(sub) :
                  sub[k].k \in FieldKeys(sub) /\ sub[k].v # <<>>
             /\ NoEmptyShell(sub, {})

\* C17: besides the markers and the unused fields, serialize emits the key
\* f exactly when f is the field id of a child path of the bundle node and
\* fields[f] is a non-empty sequence, and it emits no `entity` element that
\* holds only a bundle marker with empty or no field data.
C17_SerializeKeys ==
  (eres.op = "serialize" /\ eres.raised = "") =>
    LET unused == {ent.unused_fields[n].k : n \in 1..Len(ent.unused_fields)}
    IN /\ \A f \in (FieldKeys(data) \ unused) \cup ChildFields(ent) :
            f \in FieldKeys(data) <=>
              /\ f \in ChildFields(ent)
              /\ HasItem(ent.fields, f)
              /\ ItemGet(ent.fields, f) # <<>>
       /\ NoEmptyShell(data, unused)

\* the rows of the file of bundle b in the folder fs, none if there is no
\* such file
RowsOf(fs, b) == IF HasItem(fs, b) THEN ItemGet(fs, b) ELSE <<>>

\* the rows of a file after its header row
Body(rows) == IF rows = <<>> THEN <<>> ELSE Tail(rows)

\* the URIs of the entities of bundle b in the log, in its order
LoggedUris(log, b) ==
  LET es == SelectSeq(log, LAMBDA e : e.bundle_id = b)
  IN [n \in 1..Len(es) |-> es[n].uri]

\* C18: from an empty folder and after any to_csv calls, failed ones
\* included, every file that exists begins with a header row whose first
\* column is "uri", and every later row has the URI of its entity in the
\* first column.
C18_HeaderAndUriFirst ==
  /\ [](\A n \in 1..Len(files) :
          /\ files[n].v # <<>>
          /\ files[n].v[1] # <<>>
          /\ files[n].v[1][1] = "uri")
  /\ [][cres'.op = "to_csv" =>
          \A n \in 1..Len(files') :
            LET b == files'[n].k
                old == Body(RowsOf(files, b))
                new == Body(files'[n].v)
            IN /\ Len(new) >= Len(old)
               /\ SubSeq(new, 1, Len(old)) = old
               /\ [m \in 1..Len(new) - Len(old) |-> new[Len(old) + m][1]]
                    = LoggedUris(cres'.log, b)]_vars

RECURSIVE Concat(_)
\* the concatenation of a sequence of sequences
Concat(ss) == IF ss = <<>> THEN <<>> ELSE Head(ss) \o Concat(Tail(ss))

RECURSIVE PostOrder(_)
\* The entities of the graph of e, every nested entity before the entity
\* that holds it, in the order of the fields and of their values.
PostOrder(e) ==
  Append(Concat([n \in 1..Len(e.fields) |->
                   Concat([m \in 1..Len(e.fields[n].v) |->
                             IF IsEntity(e.fields[n].v[m])
                             THEN PostOrder(e.fields[n].v[m])
                             ELSE <<>>])]),
         e)

\* C19: a to_csv that succeeds appends exactly one row per entity of the
\* graph, the row of every nested entity before the row of the entity that
\* holds it, and the cell of a group field in the row of the entity is the
\* "|"-joined URIs of the entities of that field, in their order.
C19_SubEntitiesFirst ==
  [][(cres'.op = "to_csv" /\ cres'.raised = "") =>
       LET e == cres'.entity
           rows == RowsOf(files', e.bundle_id)
           headers == rows[1]
           row == rows[Len(rows)]
       IN /\ cres'.log = PostOrder(e)
          /\ \A n \in 1..Len(e.fields) :
               LET f == e.fields[n]
               IN get_path_for_id(paths, f.k).is_group =>
                    \E k \in 1..Len(headers) :
                      /\ headers[k] = f.k
                      /\ row[k] = Join([m \in 1..Len(f.v) |-> f.v[m].uri])]_vars

====
